---- MODULE Spec2Model ----
(***************************************************************************)
(* Transcript reconstruction of SejmPelzacz: the batch driver of           *)
(* src/main.py (transcripts_process) and the backbone walker, speech       *)
(* extractor and metadata matcher of src/test_parser.py.                   *)
(*                                                                         *)
(* A Python str is a tuple of one-character strings, so that strip(),      *)
(* rstrip(':'), re.sub(r"\s+", ' ', ..) and the sub-speaker regular         *)
(* expression are computed character by character.  The literal "Poseł"    *)
(* is written in ASCII ("Posel"): the module text admits ASCII only; the   *)
(* literal keeps its five characters and its leading capital P.            *)
(***************************************************************************)
EXTENDS Naturals, Sequences, FiniteSets

(***************************************************************************)
(* Strings                                                                 *)
(***************************************************************************)
WhiteSpace == {" ", "\n", "\t"}

IsSpace(c) == c \in WhiteSpace

MinOf(S) == CHOOSE m \in S : \A k \in S : m <= k

MaxOf(S) == CHOOSE m \in S : \A k \in S : k <= m

RECURSIVE SkipSpaces(_, _)
\* The first position >= p of s that holds no whitespace (Len(s) + 1 if none).
SkipSpaces(s, p) ==
    IF p <= Len(s) /\ IsSpace(s[p]) THEN SkipSpaces(s, p + 1) ELSE p

RECURSIVE LastNonSpace(_, _)
\* The last position <= p of s that holds no whitespace (0 if none).
LastNonSpace(s, p) ==
    IF p >= 1 /\ IsSpace(s[p]) THEN LastNonSpace(s, p - 1) ELSE p

\* str.strip(): leading and trailing whitespace removed.
Strip(s) == SubSeq(s, SkipSpaces(s, 1), LastNonSpace(s, Len(s)))

RECURSIVE LastNonColon(_, _)
LastNonColon(s, p) ==
    IF p >= 1 /\ s[p] = ":" THEN LastNonColon(s, p - 1) ELSE p

\* str.rstrip(':'): every trailing colon removed.
RStripColon(s) == SubSeq(s, 1, LastNonColon(s, Len(s)))

\* x.rstrip(':').strip(), the speaker-name normalisation.
SpeakerName(s) == Strip(RStripColon(s))

StartsRun(pr) == ~(IsSpace(pr[1]) /\ IsSpace(pr[2]))

\* re.sub(r"\s+", ' ', s): each maximal whitespace run becomes one space.
CollapseWS(s) ==
    LET pairs == [k \in 1..Len(s) |-> <<s[k], IF k = 1 THEN "" ELSE s[k-1]>>]
        kept  == SelectSeq(pairs, StartsRun)
    IN  [k \in 1..Len(kept) |-> IF IsSpace(kept[k][1]) THEN " " ELSE kept[k][1]]

\* re.sub(r"\s+", ' ', s).strip()
Clean(s) == Strip(CollapseWS(s))

RECURSIVE Join(_, _)
\* sep.join(list)
Join(sep, list) ==
    IF list = <<>> THEN <<>>
    ELSE IF Len(list) = 1 THEN list[1]
    ELSE list[1] \o sep \o Join(sep, Tail(list))

NonEmpty(s) == s # <<>>

\* Tag.get_text(separator=sep, strip=True): the text nodes of the element,
\* each stripped, the empty ones dropped, joined by sep.
GetText(nodes, sep) ==
    Join(sep, SelectSeq([k \in 1..Len(nodes) |-> Strip(nodes[k])], NonEmpty))

(***************************************************************************)
(* int(idx), src/test_parser.py line 35                                    *)
(***************************************************************************)
Digits == <<"0", "1", "2", "3", "4", "5", "6", "7", "8", "9">>

IsDigit(c) == \E d \in 1..10 : Digits[d] = c

DigitValue(c) == (CHOOSE d \in 1..10 : Digits[d] = c) - 1

\* int(s) succeeds: s, stripped, is a non-empty run of decimal digits.  (A
\* sign or an underscore between digits is accepted by int() too; the
\* anchor names drawn below carry neither.)
IsIntLiteral(s) ==
    LET t == Strip(s) IN t # <<>> /\ \A k \in 1..Len(t) : IsDigit(t[k])

RECURSIVE DecimalValue(_)
DecimalValue(t) ==
    IF t = <<>> THEN 0
    ELSE 10 * DecimalValue(SubSeq(t, 1, Len(t) - 1)) + DigitValue(t[Len(t)])

\* int(s) where it succeeds.
IntOf(s) == DecimalValue(Strip(s))

(***************************************************************************)
(* The sub-speaker pattern, src/test_parser.py line 56:                    *)
(*     (Posel\s+[^:]+:\s*[^P]+?(?=\s*Posel\s+|$))                          *)
(* Positions are 1-based; an end position of 0 means "no match".           *)
(***************************************************************************)
Posel == <<"P", "o", "s", "e", "l">>

HasPoselAt(s, p) == p + 4 <= Len(s) /\ SubSeq(s, p, p + 4) = Posel

\* (?=\s*Posel\s+|$) with p the next position to read: \s* is read greedily
\* by SkipSpaces.  Without re.MULTILINE $ holds at the end of the string and
\* before a final newline.
LookAhead(s, p) ==
    \/ LET y == SkipSpaces(s, p)
       IN  HasPoselAt(s, y) /\ y + 5 <= Len(s) /\ IsSpace(s[y + 5])
    \/ p = Len(s) + 1
    \/ p = Len(s) /\ s[p] = "\n"

RECURSIVE LazyEnd(_, _)
\* [^P]+? started at t: the least end e >= t with no "P" in s[t..e] and the
\* lookahead true after e.
LazyEnd(s, t) ==
    IF t > Len(s) \/ s[t] = "P" THEN 0
    ELSE IF LookAhead(s, t + 1) THEN t
    ELSE LazyEnd(s, t + 1)

RECURSIVE BodyFrom(_, _, _)
\* The lazy part tried at t, then at t - 1, .. down to r.
BodyFrom(s, r, t) ==
    LET e == LazyEnd(s, t)
    IN  IF e # 0 \/ t = r THEN e ELSE BodyFrom(s, r, t - 1)

\* \s*[^P]+?(?=..) read from r: \s* is greedy and gives whitespace back one
\* character at a time until the lazy part finds an end.
BodyEnd(s, r) == BodyFrom(s, r, SkipSpaces(s, r))

\* The whole pattern tried at p.  [^:]+ cannot cross a colon, so the colon it
\* stops at is the first one after the whitespace, at least one character on.
RECURSIVE FirstColon(_, _)
\* The first position >= p of s that holds a colon (0 if none).
FirstColon(s, p) ==
    IF p > Len(s) THEN 0 ELSE IF s[p] = ":" THEN p ELSE FirstColon(s, p + 1)

MatchEnd(s, p) ==
    IF ~(HasPoselAt(s, p) /\ p + 5 <= Len(s) /\ IsSpace(s[p + 5])) THEN 0
    ELSE LET c == FirstColon(s, p + 6)
         IN  IF c < p + 7 THEN 0 ELSE BodyEnd(s, c + 1)

RECURSIVE FirstMatch(_, _)
\* The least of the positions cands at which the pattern matches (0 if none).
FirstMatch(s, cands) ==
    IF cands = {} THEN 0
    ELSE LET p == MinOf(cands)
         IN  IF MatchEnd(s, p) # 0 THEN p ELSE FirstMatch(s, cands \ {p})

RECURSIVE FindAll(_, _)
\* re.findall(pattern, s): the non-overlapping matches, leftmost first.  A
\* match can only start at a "P".
FindAll(s, from) ==
    LET p == FirstMatch(s, {k \in from..Len(s) : s[k] = "P"})
    IN  IF p = 0 THEN <<>>
        ELSE LET e == MatchEnd(s, p)
             IN  <<SubSeq(s, p, e)>> \o FindAll(s, e + 1)

\* re.split(r":\s*", m, maxsplit=1)
SplitColon(m) ==
    LET c == FirstColon(m, 1)
    IN  IF c = 0 THEN <<m>>
        ELSE <<SubSeq(m, 1, c - 1), SubSeq(m, SkipSpaces(m, c + 1), Len(m))>>

(***************************************************************************)
(* parse_speech_file, src/test_parser.py lines 29-75                       *)
(*                                                                         *)
(* A fragment document is the sequence of its elements, each               *)
(* [tag, mowca, nodes]: the tag name, whether it carries class "mowca",    *)
(* and its text nodes.  files maps the index of every fragment file that   *)
(* exists to its document.                                                 *)
(***************************************************************************)
RollCallMinCount == 10

RollCallMaxAvg == 50

\* header.find_next_siblings() up to the next h2: the non-empty texts of the
\* p elements (lines 44-51).
Segments(doc, h) ==
    LET stops == {k \in (h + 1)..Len(doc) : doc[k].tag = "h2"}
        last  == IF stops = {} THEN Len(doc) ELSE MinOf(stops) - 1
        texts == [k \in 1..(last - h) |->
                    IF doc[h + k].tag = "p" THEN GetText(doc[h + k].nodes, <<" ">>)
                    ELSE <<>>]
    IN  SelectSeq(texts, NonEmpty)

\* Lines 52-53.
FullText(doc, h) == Clean(Join(<<" ">>, Segments(doc, h)))

\* Lines 56-66: one (sub_speaker, sub_text) per match that splits in two.
SubSpeechOf(m) ==
    LET parts == SplitColon(m)
    IN  [speaker |-> SpeakerName(parts[1]), text |-> Clean(parts[2])]

IsPair(m) == Len(SplitColon(m)) = 2

SubSpeeches(full) ==
    LET matches == SelectSeq(FindAll(full, 1), IsPair)
    IN  [k \in 1..Len(matches) |-> SubSpeechOf(matches[k])]

RECURSIVE TextLengthSum(_)
\* sum(len(t) for _, t in sub_speeches)
TextLengthSum(subs) ==
    IF subs = <<>> THEN 0 ELSE Len(subs[1].text) + TextLengthSum(Tail(subs))

\* The vow-section test with >= for the > of line 69.
IsVowSectionFromThreshold(subs) ==
    /\ Len(subs) >= RollCallMinCount
    /\ TextLengthSum(subs) < RollCallMaxAvg * Len(subs)

\* Lines 69-72: the vow-section test.  avg_len < 50 is the exact comparison
\* of sum / len with 50, i.e. sum < 50 * len.
IsVowSection(subs) ==
    /\ Len(subs) > RollCallMinCount
    /\ TextLengthSum(subs) < RollCallMaxAvg * Len(subs)

\* Lines 40-75, for a document that was found and opened.
ParseDocument(doc) ==
    LET heads == {k \in 1..Len(doc) : doc[k].tag = "h2" /\ doc[k].mowca}
    IN  IF heads = {} THEN <<>>
        ELSE LET h    == MinOf(heads)
                 main == SpeakerName(GetText(doc[h].nodes, <<>>))
                 full == FullText(doc, h)
                 subs == SubSpeeches(full)
             IN  IF IsVowSection(subs) THEN subs
                 ELSE <<[speaker |-> main, text |-> full]>>

\* parse_speech_file with an empty speech, not an empty list, for a file
\* that does not exist (line 37).
ParseMissingAsEmptySpeech(files, idx) ==
    IF IntOf(idx) \notin DOMAIN files THEN <<[speaker |-> <<>>, text |-> <<>>]>>
    ELSE ParseDocument(files[IntOf(idx)])

\* The whole function, for an idx that int() accepts.
parse_speech_file(files, idx) ==
    IF IntOf(idx) \notin DOMAIN files THEN <<>> ELSE ParseDocument(files[IntOf(idx)])

(***************************************************************************)
(* load_metadata, src/test_parser.py lines 9-26                            *)
(*                                                                         *)
(* A table file is [columns, rows]; a row maps each column to a string or  *)
(* to NaN (an empty cell, as pd.read_csv reads it).                        *)
(***************************************************************************)
\* NaN and None are one-element tuples that no string (a tuple of single
\* characters) equals.
NaN == <<"NaN">>

None == <<"None">>

NameAliases == <<"firstLastName", "Speaker_name", "speaker">>

Columns(table) == {table.columns[k] : k \in 1..Len(table.columns)}

\* The aliases the table carries, by their place in the search list.
AliasesFound(table) ==
    {a \in 1..Len(NameAliases) : NameAliases[a] \in Columns(table)}

\* Lines 18-24 do not raise KeyError.
HasNameColumn(table) == "name" \in Columns(table) \/ AliasesFound(table) # {}

\* Lines 18-22: the column that becomes 'name'.
NameColumn(table) ==
    IF "name" \in Columns(table) THEN "name"
    ELSE NameAliases[MinOf(AliasesFound(table))]

\* Line 25: df.where(pd.notnull(df), None)
NotNull(v) == IF v = NaN THEN None ELSE v

\* The frame returned: every row with its 'name' field set and NaN made None.
load_metadata(table) ==
    [k \in 1..Len(table.rows) |->
        [c \in Columns(table) \cup {"name"} |->
            NotNull(table.rows[k][IF c = "name" THEN NameColumn(table) ELSE c])]]

(***************************************************************************)
(* The metadata lookup, src/test_parser.py lines 135-137                   *)
(***************************************************************************)
\* Python's  n in s  for strings.
IsSubstring(n, s) ==
    \E k \in 0..Len(s) : k + Len(n) <= Len(s) /\ SubSeq(s, k + 1, k + Len(n)) = n

\* lambda n: n and n in speaker_to_match  --  None and "" come back as they
\* are ("None", "str"), a non-empty name gives a bool ("True", "False").
MaskValue(n, speaker) ==
    IF n = None THEN "None"
    ELSE IF n = <<>> THEN "str"
    ELSE IF IsSubstring(n, speaker) THEN "True" ELSE "False"

\* metadata_df[mask] selects rows only when the mask is boolean: an empty
\* frame selects nothing, and a mask holding None or a string is refused
\* (ValueError "Cannot mask with non-boolean array containing NA / NaN
\* values", or KeyError when it holds a string).
MaskIsBoolean(df, speaker) ==
    \A k \in 1..Len(df) : MaskValue(df[k]["name"], speaker) \in {"True", "False"}

RowsMatching(df, speaker) ==
    LET Hit(row) == MaskValue(row["name"], speaker) = "True"
    IN  SelectSeq(df, Hit)

\* Lines 128-132: the rendered text of a speech block.
LineText(sub_speaker, sub_text) ==
    IF sub_speaker # <<>> THEN SpeakerName(sub_speaker) \o <<":", " ">> \o sub_text
    ELSE sub_text

\* Lines 128-129 and 135: the name looked up and recorded.
SpeakerToMatch(sub_speaker) ==
    IF sub_speaker # <<>> THEN SpeakerName(sub_speaker) ELSE sub_speaker

(***************************************************************************)
(* State                                                                   *)
(*                                                                         *)
(* remaining       session directories transcripts_process has yet to      *)
(*                 visit (src/main.py lines 20-25)                         *)
(* pc              where control is: "main" in the loop of                 *)
(*                 transcripts_process, "walk" at the head of the          *)
(*                 paragraph loop, "resolve" after the flush of a          *)
(*                 reference paragraph, "emit" in the sub-speech loop,     *)
(*                 "write" after the final flush, "halted" when an         *)
(*                 exception left transcripts_process                      *)
(* err             the exception that halted the run                       *)
(* session         the directory being processed: its backbone paragraphs  *)
(*                 (soup0.find_all('p')) and its deputies table; its       *)
(*                 fragment files are Files, the same in every directory   *)
(* metadata_df, combined, metadata_list, seq, buffer_context, sub_speeches,*)
(* speaker_main    the locals of process_html_transcripts; i is the        *)
(*                 position of the paragraph loop                          *)
(* origin          history: for each line of combined, the backbone        *)
(*                 paragraphs whose content it carries                     *)
(* buffer_origin   history: the paragraph each buffered text came from     *)
(* returned        history: the reference paragraph last resolved and the  *)
(*                 pairs parse_speech_file returned for it                 *)
(***************************************************************************)
VARIABLES remaining, pc, err, session, metadata_df, combined, metadata_list,
          seq, buffer_context, i, sub_speeches, speaker_main,
          origin, buffer_origin, returned

vars == <<remaining, pc, err, session, metadata_df, combined, metadata_list,
          seq, buffer_context, i, sub_speeches, speaker_main,
          origin, buffer_origin, returned>>

locals == <<metadata_df, combined, metadata_list, seq, buffer_context, i,
            sub_speeches, speaker_main, origin, buffer_origin, returned>>

EmptyTable == [columns |-> <<>>, rows |-> <<>>]

\* No directory: the value of session between two calls.
NoSession ==
    [base |-> "", has_deputies |-> FALSE, has_backbone |-> FALSE,
     deputies |-> EmptyTable, backbone |-> <<>>]

NoAnchor == [name |-> None, nodes |-> <<>>]

NothingReturned == [para |-> 0, pairs |-> <<>>]

soup0 == session.backbone

\* f"{base}_{seq}"
Uid(n) == [base |-> session.base, n |-> n]

\* 'mowca-link' in (p.get('class') or [])
IsReference(p) == p.mowca_link

\* The locals as process_html_transcripts sets them (lines 97-100), also the
\* value they have while no session is being processed.
FreshLocals ==
    /\ combined' = <<>>
    /\ metadata_list' = <<>>
    /\ seq' = 1
    /\ buffer_context' = <<>>
    /\ i' = 1
    /\ sub_speeches' = <<>>
    /\ speaker_main' = <<>>
    /\ origin' = <<>>
    /\ buffer_origin' = <<>>
    /\ returned' = NothingReturned

(***************************************************************************)
(* Inputs: the documents on disk                                           *)
(***************************************************************************)
MaxParas == 3

NumSessions == 2

MaxOver == 1

H2(mowca, nodes) == [tag |-> "h2", mowca |-> mowca, nodes |-> nodes]

P(nodes) == [tag |-> "p", mowca |-> FALSE, nodes |-> nodes]

Div(nodes) == [tag |-> "div", mowca |-> FALSE, nodes |-> nodes]

\* "J:" then two paragraphs, a div between them, up to the next h2.
PlainDoc ==
    << H2(FALSE, <<<<"t">>>>), H2(TRUE, <<<<"J", ":">>>>),
       P(<<<<" ", "D", "z", ".", "\n">>>>), Div(<<<<"n">>>>), P(<<<<"o">>, <<"k">>>>),
       H2(FALSE, <<<<"u">>>>), P(<<<<"v">>>>) >>

\* No h2 of class mowca.
NoHeaderDoc == << H2(FALSE, <<<<"J", ":">>>>), P(<<<<"a">>>>) >>

\* The text opens with the speaker's own name and a colon.
OwnNameDoc == << H2(TRUE, <<<<"J", ":">>>>), P(<<<<"J", ":", " ", "a">>>>) >>

\* The header holds a colon only: the speaker name is empty.
EmptySpeakerDoc == << H2(TRUE, <<<<":">>>>), P(<<<<"a">>>>) >>

Word(len) == [k \in 1..len |-> "x"]

VowName(k) == IF k % 2 = 1 THEN "A" ELSE "B"

Vow(k, len) == Posel \o <<" ", VowName(k), ":", " ">> \o Word(len)

\* n vows under the chair's header, one per paragraph: the first with a text
\* of len + extra characters, the others of len.
RollDoc(n, len, extra) ==
    << H2(TRUE, <<<<"M", ":">>>>) >> \o
    [k \in 1..n |-> P(<<Vow(k, IF k = 1 THEN len + extra ELSE len)>>)]

ShortVowsDoc == RollDoc(2, 1, 0)

\* The counts, text lengths and first-text surplus of the roll-call documents
\* on disk: around both thresholds, with means that are not whole numbers.
RollShapes ==
    {<<n, len, extra>> \in
        (RollCallMinCount..(RollCallMinCount + MaxOver))
        \X ((RollCallMaxAvg - 1)..RollCallMaxAvg)
        \X (0..(RollCallMinCount + MaxOver)) :
        extra \in {0, n - 1, n}}

SmallDocs == <<PlainDoc, NoHeaderDoc, OwnNameDoc, EmptySpeakerDoc, ShortVowsDoc>>

\* Where each document lies: no file has index 2.
SmallIndex == <<1, 3, 4, 5, 6>>

\* The file index of a roll-call document spells its shape.
RollIndex(sh) == (sh[1] * 100 + sh[2]) * 100 + sh[3]

Files ==
    [n \in {SmallIndex[k] : k \in 1..Len(SmallIndex)}
           \cup {RollIndex(sh) : sh \in RollShapes} |->
        IF \E k \in 1..Len(SmallIndex) : SmallIndex[k] = n
        THEN SmallDocs[CHOOSE k \in 1..Len(SmallIndex) : SmallIndex[k] = n]
        ELSE LET sh == CHOOSE x \in RollShapes : RollIndex(x) = n
             IN  RollDoc(sh[1], sh[2], sh[3])]

RECURSIVE DecimalString(_)
DecimalString(n) ==
    IF n < 10 THEN <<Digits[n + 1]>>
    ELSE DecimalString(n \div 10) \o <<Digits[(n % 10) + 1]>>

(***************************************************************************)
(* Inputs: backbone paragraphs                                             *)
(***************************************************************************)
Context(nodes) == [mowca_link |-> FALSE, anchor |-> NoAnchor, nodes |-> nodes]

Reference(anchor) ==
    [mowca_link |-> TRUE, anchor |-> anchor, nodes |-> <<<<"J", ":">>>>]

Anchor(name) == [name |-> name, nodes |-> <<<<" ", "J", ":">>>>]

CtxBlank == Context(<<<<" ", "\n">>>>)

CtxA == Context(<<<<"a">>>>)

CtxWide == Context(<<<<" ", "b", "\n", " ", "c", " ">>, <<"d">>>>)

RefNoAnchor == Reference(NoAnchor)

RefBadName == Reference(Anchor(<<"x">>))

RefPlain == Reference(Anchor(<<"1">>))

RefMissing == Reference(Anchor(<<" ", "0", "2">>))

RefTo(n) == Reference(Anchor(DecimalString(n)))

WalkerKinds ==
    {CtxBlank, CtxA, CtxWide, RefNoAnchor, RefBadName, RefPlain, RefMissing}

WalkerBackbones == UNION {[1..n -> WalkerKinds] : n \in 0..MaxParas}

FragmentBackbones ==
    {<<RefTo(n)>> : n \in DOMAIN Files} \cup
    {<<CtxA, RefTo(n), CtxWide>> : n \in DOMAIN Files}

(***************************************************************************)
(* Inputs: deputies tables                                                 *)
(***************************************************************************)
TableNames ==
    [columns |-> <<"name", "club">>,
     rows |-> << [name |-> <<"J">>, club |-> <<"X">>],
                 [name |-> <<"A">>, club |-> NaN],
                 [name |-> Posel \o <<" ", "A">>, club |-> <<"Y">>] >>]

TableAlias ==
    [columns |-> <<"speaker", "firstLastName">>,
     rows |-> << [speaker |-> <<"z">>, firstLastName |-> <<"J">>] >>]

TableNullName ==
    [columns |-> <<"name", "club">>,
     rows |-> << [name |-> <<"J">>, club |-> <<"X">>],
                 [name |-> NaN, club |-> <<"Y">>] >>]

TableNoRows == [columns |-> <<"name">>, rows |-> <<>>]

TableNoNameColumn ==
    [columns |-> <<"id", "club">>,
     rows |-> << [id |-> <<"1">>, club |-> <<"X">>] >>]

Dir(deputies, backbone) ==
    [base |-> "S", has_deputies |-> TRUE, has_backbone |-> TRUE,
     deputies |-> deputies, backbone |-> backbone]

\* The session directories a run may meet.
Sessions ==
    {Dir(TableNames, b) : b \in WalkerBackbones}
    \cup {Dir(t, b) : t \in {TableNames, TableAlias, TableNullName, TableNoRows},
                      b \in FragmentBackbones}
    \cup {Dir(TableNoNameColumn, <<CtxA, RefPlain>>),
          [Dir(TableNames, <<CtxA>>) EXCEPT !.has_deputies = FALSE],
          [Dir(TableNames, <<>>) EXCEPT !.has_backbone = FALSE]}

(***************************************************************************)
(* transcripts_process, src/main.py lines 19-33                            *)
(***************************************************************************)
Init ==
    /\ remaining = NumSessions
    /\ pc = "main"
    /\ err = "none"
    /\ session = NoSession
    /\ metadata_df = <<>>
    /\ combined = <<>>
    /\ metadata_list = <<>>
    /\ seq = 1
    /\ buffer_context = <<>>
    /\ i = 1
    /\ sub_speeches = <<>>
    /\ speaker_main = <<>>
    /\ origin = <<>>
    /\ buffer_origin = <<>>
    /\ returned = NothingReturned

\* Lines 27-29: the directory has no deputies.csv or no *_0.html; the loop
\* goes on to the next directory.
SkipSession ==
    /\ pc = "main"
    /\ remaining > 0
    /\ \E dir \in Sessions : ~(dir.has_deputies /\ dir.has_backbone)
    /\ remaining' = remaining - 1
    /\ UNCHANGED <<pc, err, session, locals>>

\* Line 33 into process_html_transcripts lines 86-100: the backbone is
\* found and parsed, the table loaded, the locals set.
BeginSession ==
    /\ pc = "main"
    /\ remaining > 0
    /\ \E dir \in Sessions :
        /\ dir.has_deputies /\ dir.has_backbone
        /\ HasNameColumn(dir.deputies)
        /\ session' = dir
        /\ metadata_df' = load_metadata(dir.deputies)
    /\ remaining' = remaining - 1
    /\ pc' = "walk"
    /\ FreshLocals
    /\ UNCHANGED err

\* Line 96 raising load_metadata's KeyError (line 24): nothing in
\* transcripts_process catches it.
LoadMetadataFails ==
    /\ pc = "main"
    /\ remaining > 0
    /\ \E dir \in Sessions :
        /\ dir.has_deputies /\ dir.has_backbone
        /\ ~HasNameColumn(dir.deputies)
        /\ session' = dir
    /\ remaining' = remaining - 1
    /\ pc' = "halted"
    /\ err' = "KeyError"
    /\ UNCHANGED locals

(***************************************************************************)
(* process_html_transcripts, src/test_parser.py lines 102-158              *)
(***************************************************************************)
\* flush_context with line 110 (seq += 1) left out.
FlushContextNoIncrement(next_pc) ==
    /\ IF buffer_context # <<>>
       THEN /\ combined' = Append(combined,
                    [uid |-> Uid(seq), text |-> Clean(Join(<<" ">>, buffer_context))])
            /\ metadata_list' = Append(metadata_list,
                    [id |-> Uid(seq), speaker |-> None, metadata |-> <<>>])
            /\ seq' = seq
            /\ buffer_context' = <<>>
            /\ origin' = Append(origin, buffer_origin)
            /\ buffer_origin' = <<>>
       ELSE UNCHANGED <<combined, metadata_list, seq, buffer_context, origin,
                        buffer_origin>>
    /\ pc' = next_pc

\* flush_context with line 111 (buffer_context.clear()) left out.
FlushContextKeepsBuffer(next_pc) ==
    /\ IF buffer_context # <<>>
       THEN /\ combined' = Append(combined,
                    [uid |-> Uid(seq), text |-> Clean(Join(<<" ">>, buffer_context))])
            /\ metadata_list' = Append(metadata_list,
                    [id |-> Uid(seq), speaker |-> None, metadata |-> <<>>])
            /\ seq' = seq + 1
            /\ origin' = Append(origin, buffer_origin)
            /\ UNCHANGED <<buffer_context, buffer_origin>>
       ELSE UNCHANGED <<combined, metadata_list, seq, buffer_context, origin,
                        buffer_origin>>
    /\ pc' = next_pc

\* flush_context without the test of line 104.
FlushContextUnguarded(next_pc) ==
    /\ combined' = Append(combined,
            [uid |-> Uid(seq), text |-> Clean(Join(<<" ">>, buffer_context))])
    /\ metadata_list' = Append(metadata_list,
            [id |-> Uid(seq), speaker |-> None, metadata |-> <<>>])
    /\ seq' = seq + 1
    /\ buffer_context' = <<>>
    /\ origin' = Append(origin, buffer_origin)
    /\ buffer_origin' = <<>>
    /\ pc' = next_pc

\* flush_context (lines 102-111), then control at next_pc.
FlushContext(next_pc) ==
    /\ IF buffer_context # <<>>
       THEN /\ combined' = Append(combined,
                    [uid |-> Uid(seq), text |-> Clean(Join(<<" ">>, buffer_context))])
            /\ metadata_list' = Append(metadata_list,
                    [id |-> Uid(seq), speaker |-> None, metadata |-> <<>>])
            /\ seq' = seq + 1
            /\ buffer_context' = <<>>
            /\ origin' = Append(origin, buffer_origin)
            /\ buffer_origin' = <<>>
       ELSE UNCHANGED <<combined, metadata_list, seq, buffer_context, origin,
                        buffer_origin>>
    /\ pc' = next_pc

\* Lines 140-144: a paragraph without the class.
AccumulateContext ==
    /\ pc = "walk"
    /\ i <= Len(soup0)
    /\ ~IsReference(soup0[i])
    /\ LET text == GetText(soup0[i].nodes, <<" ">>)
       IN  IF text # <<>>
           THEN /\ buffer_context' = Append(buffer_context, text)
                /\ buffer_origin' = Append(buffer_origin, i)
           ELSE UNCHANGED <<buffer_context, buffer_origin>>
    /\ i' = i + 1
    /\ UNCHANGED <<remaining, pc, err, session, metadata_df, combined,
                   metadata_list, seq, sub_speeches, speaker_main, origin, returned>>

\* Lines 115-117 with the flush of line 117 left out.
ReferenceWithoutFlush ==
    /\ pc = "walk"
    /\ i <= Len(soup0)
    /\ IsReference(soup0[i])
    /\ pc' = "resolve"
    /\ UNCHANGED <<remaining, err, session, metadata_df, combined, metadata_list,
                   seq, buffer_context, i, sub_speeches, speaker_main, origin,
                   buffer_origin, returned>>

\* Lines 115-117: a paragraph of class mowca-link flushes first.
FlushAtReference ==
    /\ pc = "walk"
    /\ i <= Len(soup0)
    /\ IsReference(soup0[i])
    /\ FlushContext("resolve")
    /\ UNCHANGED <<remaining, err, session, metadata_df, i, sub_speeches,
                   speaker_main, returned>>

\* Lines 119-121: no anchor with a name attribute.
SkipNoAnchor ==
    /\ pc = "resolve"
    /\ soup0[i].anchor.name = None
    /\ i' = i + 1
    /\ pc' = "walk"
    /\ UNCHANGED <<remaining, err, session, metadata_df, combined, metadata_list,
                   seq, buffer_context, sub_speeches, speaker_main, origin,
                   buffer_origin, returned>>

\* Lines 122-124 with int(idx) raising ValueError at line 35.
IndexNotInteger ==
    /\ pc = "resolve"
    /\ soup0[i].anchor.name # None
    /\ ~IsIntLiteral(soup0[i].anchor.name)
    /\ speaker_main' = SpeakerName(GetText(soup0[i].anchor.nodes, <<>>))
    /\ pc' = "halted"
    /\ err' = "ValueError"
    /\ UNCHANGED <<remaining, session, metadata_df, combined, metadata_list, seq,
                   buffer_context, i, sub_speeches, origin, buffer_origin, returned>>

\* Lines 122-125: the fragment is parsed; with nothing returned the loop of
\* line 125 does not run and the walk goes on.
ResolveReference ==
    /\ pc = "resolve"
    /\ soup0[i].anchor.name # None
    /\ IsIntLiteral(soup0[i].anchor.name)
    /\ speaker_main' = SpeakerName(GetText(soup0[i].anchor.nodes, <<>>))
    /\ sub_speeches' = parse_speech_file(Files, soup0[i].anchor.name)
    /\ returned' = [para |-> i, pairs |-> sub_speeches']
    /\ IF sub_speeches' = <<>>
       THEN pc' = "walk" /\ i' = i + 1
       ELSE pc' = "emit" /\ i' = i
    /\ UNCHANGED <<remaining, err, session, metadata_df, combined, metadata_list,
                   seq, buffer_context, origin, buffer_origin>>

\* Lines 126-139 for the next pair of the loop.
EmitSpeech ==
    /\ pc = "emit"
    /\ LET sub   == Head(sub_speeches)
           match == SpeakerToMatch(sub.speaker)
       IN  /\ MaskIsBoolean(metadata_df, match)
           /\ combined' = Append(combined,
                   [uid |-> Uid(seq), text |-> LineText(sub.speaker, sub.text)])
           /\ metadata_list' = Append(metadata_list,
                   [id |-> Uid(seq), speaker |-> match,
                    metadata |-> RowsMatching(metadata_df, match)])
    /\ seq' = seq + 1
    /\ origin' = Append(origin, <<i>>)
    /\ sub_speeches' = Tail(sub_speeches)
    /\ IF Tail(sub_speeches) = <<>>
       THEN pc' = "walk" /\ i' = i + 1
       ELSE pc' = "emit" /\ i' = i
    /\ UNCHANGED <<remaining, err, session, metadata_df, buffer_context,
                   speaker_main, buffer_origin, returned>>

\* Lines 126-136 when the mask of line 136 is not boolean: the line is
\* already in combined (line 133) when the indexing raises.
MaskRaises ==
    /\ pc = "emit"
    /\ LET sub == Head(sub_speeches)
       IN  /\ ~MaskIsBoolean(metadata_df, SpeakerToMatch(sub.speaker))
           /\ combined' = Append(combined,
                   [uid |-> Uid(seq), text |-> LineText(sub.speaker, sub.text)])
    /\ origin' = Append(origin, <<i>>)
    /\ pc' = "halted"
    /\ err' = "MaskError"
    /\ UNCHANGED <<remaining, session, metadata_df, metadata_list, seq,
                   buffer_context, i, sub_speeches, speaker_main, buffer_origin,
                   returned>>

\* Line 147: the final flush.
FinalFlush ==
    /\ pc = "walk"
    /\ i > Len(soup0)
    /\ FlushContext("write")
    /\ UNCHANGED <<remaining, err, session, metadata_df, i, sub_speeches,
                   speaker_main, returned>>

\* Lines 149-158: both artifacts are written and the call returns to the
\* loop of transcripts_process.
WriteArtifacts ==
    /\ pc = "write"
    /\ pc' = "main"
    /\ session' = NoSession
    /\ metadata_df' = <<>>
    /\ FreshLocals
    /\ UNCHANGED <<remaining, err>>

Next ==
    \/ SkipSession
    \/ BeginSession
    \/ LoadMetadataFails
    \/ AccumulateContext
    \/ FlushAtReference
    \/ SkipNoAnchor
    \/ IndexNotInteger
    \/ ResolveReference
    \/ EmitSpeech
    \/ MaskRaises
    \/ FinalFlush
    \/ WriteArtifacts

Spec == Init /\ [][Next]_vars

(***************************************************************************)
(* Vocabulary of the properties                                            *)
(***************************************************************************)
RECURSIVE FirstSpace(_, _)
\* The first position >= p of s that holds whitespace (Len(s) + 1 if none).
FirstSpace(s, p) ==
    IF p <= Len(s) /\ ~IsSpace(s[p]) THEN FirstSpace(s, p + 1) ELSE p

RECURSIVE Words(_)
\* The maximal whitespace-free pieces of s, in order.
Words(s) ==
    LET a == SkipSpaces(s, 1)
    IN  IF a > Len(s) THEN <<>>
        ELSE LET b == FirstSpace(s, a)
             IN  <<SubSeq(s, a, b - 1)>> \o Words(SubSeq(s, b, Len(s)))

RECURSIVE Concat(_)
Concat(list) == IF list = <<>> THEN <<>> ELSE list[1] \o Concat(Tail(list))

\* The words of a paragraph's visible text.
ParaWords(p) == Concat([k \in 1..Len(p.nodes) |-> Words(p.nodes[k])])

\* A paragraph that is context and has visible text.
HasText(k) == ~IsReference(soup0[k]) /\ ParaWords(soup0[k]) # <<>>

\* Block k is fully emitted and is a context block.
IsContextBlock(k) == k <= Len(metadata_list) /\ metadata_list[k].speaker = None

IsSpeechLine(k) == k <= Len(combined) /\ ~IsContextBlock(k)

\* How many times paragraph k appears in the context blocks and in the buffer.
Occurrences(k) ==
    Cardinality({<<b, j>> \in (1..Len(metadata_list)) \X (1..Len(soup0)) :
                    IsContextBlock(b) /\ j <= Len(origin[b]) /\ origin[b][j] = k})
    + Cardinality({j \in 1..Len(buffer_origin) : buffer_origin[j] = k})

\* The maximal run of paragraphs without the class around paragraph k.
RunLow(k) ==
    MinOf({a \in 1..k : \A m \in a..k : ~IsReference(soup0[m])})

RunHigh(k) ==
    MaxOf({b \in k..Len(soup0) : \A m \in k..b : ~IsReference(soup0[m])})

RECURSIVE Ascending(_)
\* The numbers of a finite set in increasing order.
Ascending(S) ==
    IF S = {} THEN <<>> ELSE <<MinOf(S)>> \o Ascending(S \ {MinOf(S)})

\* The paragraphs with text between a and b, in document order.
TextParas(a, b) == Ascending({k \in a..b : HasText(k)})

(***************************************************************************)
(* C1  The k-th block appended carries the identifier {base}_k: in both    *)
(* output lists the entry at position k has number k, and the counter is   *)
(* one more than the number of blocks emitted, so it starts at 1 and moves *)
(* once per block and never otherwise.                                     *)
(***************************************************************************)
C1_IdentifiersCountBlocks ==
    /\ \A k \in 1..Len(combined) : combined[k].uid = [base |-> session.base, n |-> k]
    /\ \A k \in 1..Len(metadata_list) :
           metadata_list[k].id = [base |-> session.base, n |-> k]
    /\ seq = Len(metadata_list) + 1

\* A finished walk with a context block and a speech block among three or more.
C1_Witness ==
    /\ pc = "write"
    /\ Len(metadata_list) >= 3
    /\ \E j, k \in 1..Len(metadata_list) :
           metadata_list[j].speaker = None /\ metadata_list[k].speaker # None

(***************************************************************************)
(* C2  Blocks follow backbone order: of two blocks, the earlier one        *)
(* carries no paragraph that comes after a paragraph of the later one;     *)
(* only the speech blocks of one reference share a paragraph, so context   *)
(* before a reference is emitted before its speeches; and the speech       *)
(* lines of the reference last resolved are, in order, the leading pairs   *)
(* parse_speech_file returned.                                             *)
(***************************************************************************)
C2_OrderPreserved ==
    /\ \A j, k \in 1..Len(origin) :
           j < k =>
               \A a \in 1..Len(origin[j]), b \in 1..Len(origin[k]) :
                   /\ origin[j][a] <= origin[k][b]
                   /\ origin[j][a] = origin[k][b] => IsSpeechLine(j) /\ IsSpeechLine(k)
    /\ \A k \in 1..Len(origin) :
           IsSpeechLine(k) /\ origin[k] = <<returned.para>> =>
               LET m == Cardinality({j \in 1..k : IsSpeechLine(j)
                                                  /\ origin[j] = <<returned.para>>})
               IN  /\ m <= Len(returned.pairs)
                   /\ combined[k].text =
                          LineText(returned.pairs[m].speaker, returned.pairs[m].text)

\* Context, then the split vows of one reference, then context again.
C2_Witness ==
    /\ pc = "write"
    /\ Len(returned.pairs) > 1
    /\ \E j, k \in 1..Len(origin) :
           /\ IsContextBlock(j) /\ IsContextBlock(k)
           /\ origin[j][1] < returned.para /\ returned.para < origin[k][1]

(***************************************************************************)
(* C3  Context merge.  Every context paragraph with text that the walk has *)
(* passed is held exactly once, in the buffer or in one context block, and *)
(* no paragraph ahead of the walk is held at all; the buffer holds the     *)
(* paragraphs with text of the run still open and is empty once a          *)
(* reference or the end of the document was reached; each context block    *)
(* holds all the paragraphs with text of one maximal run, and its text is  *)
(* their words in order, joined by single spaces.                          *)
(***************************************************************************)
C3_ContextMerged ==
    /\ \A k \in 1..Len(soup0) :
           Occurrences(k) = IF HasText(k) /\ k < i THEN 1 ELSE 0
    /\ pc # "walk" => buffer_context = <<>>
    /\ Len(buffer_context) = Len(buffer_origin)
    /\ buffer_origin # <<>> =>
           buffer_origin = TextParas(RunLow(buffer_origin[1]), i - 1)
    /\ \A j \in 1..Len(buffer_origin) :
           Words(buffer_context[j]) = ParaWords(soup0[buffer_origin[j]])
    /\ \A b \in 1..Len(metadata_list) :
           IsContextBlock(b) =>
               /\ origin[b] # <<>>
               /\ origin[b] = TextParas(RunLow(origin[b][1]), RunHigh(origin[b][1]))
               /\ combined[b].text =
                      Join(<<" ">>,
                           Concat([j \in 1..Len(origin[b]) |-> ParaWords(soup0[origin[b][j]])]))

\* A finished walk with a block merged from two paragraphs around a blank
\* one, whose text had a whitespace run collapsed.
C3_Witness ==
    /\ pc = "write"
    /\ \E b \in 1..Len(metadata_list) :
           /\ IsContextBlock(b)
           /\ Len(origin[b]) = 2
           /\ origin[b][2] = origin[b][1] + 2
           /\ combined[b].text # Join(<<" ">>, [j \in 1..2 |->
                                     GetText(soup0[origin[b][j]].nodes, <<" ">>)])

(***************************************************************************)
(* C4  A flush with an empty buffer (the step from the head of the loop to *)
(* the reference or to the end) appends nothing to either list and leaves  *)
(* the counter alone, and no context block has empty text.                 *)
(***************************************************************************)
EmptyFlushStep ==
    pc = "walk" /\ pc' \in {"resolve", "write"} /\ buffer_context = <<>>

NoEmptyContextBlock ==
    \A b \in 1..Len(metadata_list) : IsContextBlock(b) => combined[b].text # <<>>

C4_EmptyFlushIsNoOp ==
    /\ []NoEmptyContextBlock
    /\ [][EmptyFlushStep => UNCHANGED <<combined, metadata_list, seq>>]_vars

\* After the flush of a reference that follows a reference, with blank
\* paragraphs only between them.
C4_Witness ==
    /\ pc = "resolve"
    /\ i >= 3
    /\ IsReference(soup0[i - 2])
    /\ ~IsReference(soup0[i - 1])
    /\ buffer_context = <<>>

(***************************************************************************)
(* C5  A paragraph of the reference class with no resolvable index (no     *)
(* anchor with a name, or a name that is no integer) is skipped: no block  *)
(* carries it and the walk does not halt on it.                            *)
(***************************************************************************)
Unresolvable(p) ==
    IsReference(p) /\ (p.anchor.name = None \/ ~IsIntLiteral(p.anchor.name))

C5_UnresolvableSkipped ==
    \A k \in 1..Len(soup0) :
        Unresolvable(soup0[k]) =>
            /\ \A b \in 1..Len(origin) : \A j \in 1..Len(origin[b]) : origin[b][j] # k
            /\ ~(pc = "halted" /\ i = k)

(***************************************************************************)
(* C6  A reference to a fragment that does not exist, or that has no       *)
(* speaker header, resolves to nothing: the step that resolves it returns  *)
(* an empty list, emits no block, leaves the counter and both lists as     *)
(* they were, raises nothing and hands the walk the next paragraph.        *)
(***************************************************************************)
Resolvable(p) ==
    IsReference(p) /\ p.anchor.name # None /\ IsIntLiteral(p.anchor.name)

HasSpeakerHeader(doc) == \E k \in 1..Len(doc) : doc[k].tag = "h2" /\ doc[k].mowca

\* The fragment of a resolvable reference is missing or malformed.
NoFragment(p) ==
    \/ IntOf(p.anchor.name) \notin DOMAIN Files
    \/ ~HasSpeakerHeader(Files[IntOf(p.anchor.name)])

C6_MissingFragmentTolerated ==
    [][pc = "resolve" /\ Resolvable(soup0[i]) /\ NoFragment(soup0[i]) =>
           /\ pc' = "walk"
           /\ i' = i + 1
           /\ sub_speeches' = <<>>
           /\ returned'.pairs = <<>>
           /\ UNCHANGED <<combined, metadata_list, seq, buffer_context, err,
                          remaining, origin>>]_vars

\* A finished walk in which a paragraph after such a reference gave a block,
\* numbered right after the blocks before the reference.
C6_Witness ==
    /\ pc = "write"
    /\ \E k \in 1..Len(soup0) :
           /\ Resolvable(soup0[k]) /\ NoFragment(soup0[k])
           /\ \E b \in 2..Len(origin) :
                  /\ origin[b][1] > k
                  /\ origin[b - 1][Len(origin[b - 1])] < k
                  /\ combined[b].uid.n = combined[b - 1].uid.n + 1

(***************************************************************************)
(* C7  Roll-call split.  With n pairs found in the fragment's text and a   *)
(* total text length t, parse_speech_file returned the n pairs exactly     *)
(* when n > 10 and t / n < 50, and otherwise the one pair of the header's  *)
(* speaker and the full text.  For the roll-call documents, whose vows are *)
(* known by construction, the pairs are the vows.  Of the pairs returned,  *)
(* those the loop has taken each gave one speech block, in order, and the  *)
(* loop leaves none behind.                                                *)
(***************************************************************************)
ReturnedDoc == Files[IntOf(soup0[returned.para].anchor.name)]

ReturnedHeader ==
    MinOf({k \in 1..Len(ReturnedDoc) : ReturnedDoc[k].tag = "h2" /\ ReturnedDoc[k].mowca})

\* The fully emitted speech blocks of the reference last resolved.
ReturnedBlocks ==
    Ascending({b \in 1..Len(metadata_list) :
                  ~IsContextBlock(b) /\ origin[b] = <<returned.para>>})

C7_RollCallThreshold ==
    /\ returned.para # 0 /\ ~NoFragment(soup0[returned.para]) =>
           LET full  == FullText(ReturnedDoc, ReturnedHeader)
               found == SubSpeeches(full)
               n     == Len(found)
               t     == TextLengthSum(found)
               main  == SpeakerName(GetText(ReturnedDoc[ReturnedHeader].nodes, <<>>))
           IN  returned.pairs =
                   IF n > 10 /\ t < 50 * n THEN found
                   ELSE <<[speaker |-> main, text |-> full]>>
    /\ returned.para # 0 =>
           \A sh \in RollShapes :
               RollIndex(sh) = IntOf(soup0[returned.para].anchor.name) =>
                   IF sh[1] > 10 /\ sh[1] * sh[2] + sh[3] < 50 * sh[1]
                   THEN returned.pairs =
                            [k \in 1..sh[1] |->
                                [speaker |-> Posel \o <<" ", VowName(k)>>,
                                 text |-> Word(IF k = 1 THEN sh[2] + sh[3] ELSE sh[2])]]
                   ELSE /\ Len(returned.pairs) = 1
                        /\ returned.pairs[1].speaker = <<"M">>
                        /\ Len(Words(returned.pairs[1].text)) = 3 * sh[1]
    /\ Len(ReturnedBlocks) = Len(returned.pairs) - Len(sub_speeches)
    /\ \A m \in 1..Len(ReturnedBlocks) :
           metadata_list[ReturnedBlocks[m]].speaker =
               SpeakerToMatch(returned.pairs[m].speaker)
    /\ pc \notin {"emit", "halted"} => sub_speeches = <<>>

\* A fragment split into more than ten blocks, all emitted.
C7_Witness ==
    /\ pc = "write"
    /\ Len(returned.pairs) > 10
    /\ Len(ReturnedBlocks) = Len(returned.pairs)

(***************************************************************************)
(* C8  A session that fails fatally (here: a table without a name column)  *)
(* is skipped and the sessions after it are still processed: the failure   *)
(* never halts the run while directories remain.                           *)
(***************************************************************************)
C8_SessionFailureIsolated == ~(pc = "halted" /\ err = "KeyError" /\ remaining > 0)

(***************************************************************************)
(* C9  Every speech block's record lists exactly the table rows whose      *)
(* name is not null and is a substring of the block's speaker name, every  *)
(* context block's record has a null speaker and no rows, and the two      *)
(* output lists have the same length and the same identifier at each       *)
(* position.                                                               *)
(***************************************************************************)
NamedIn(row, speaker) == row["name"] # None /\ IsSubstring(row["name"], speaker)

C9_MetadataMatchComplete ==
    /\ Len(combined) = Len(metadata_list)
    /\ \A k \in 1..Len(metadata_list) :
           /\ k <= Len(combined) => metadata_list[k].id = combined[k].uid
           /\ IF metadata_list[k].speaker = None
              THEN metadata_list[k].metadata = <<>>
              ELSE LET Hit(row) == NamedIn(row, metadata_list[k].speaker)
                   IN  metadata_list[k].metadata = SelectSeq(metadata_df, Hit)

(***************************************************************************)
(* C10  Every speech block with a speaker is rendered "{speaker}: {text}", *)
(* every other block as its bare text, and the rendered line never opens   *)
(* with the speaker prefix twice.                                          *)
(***************************************************************************)
StartsWith(s, pre) == Len(pre) <= Len(s) /\ SubSeq(s, 1, Len(pre)) = pre

C10_SpeakerPrefixOnce ==
    \A k \in 1..Len(metadata_list) :
        LET speaker == metadata_list[k].speaker
            prefix  == speaker \o <<":", " ">>
        IN  speaker # None /\ speaker # <<>> =>
                /\ StartsWith(combined[k].text, prefix)
                /\ ~StartsWith(combined[k].text, prefix \o prefix)

====
